---- MODULE Spec2Model ----
(***************************************************************************)
(* Model of the two Streamlit pages of regional-grid-expansion-model:      *)
(*   pages/1_Ladeinfrastruktur.py  (charging stations, candidate sites)    *)
(*   pages/2_Split_Map.py          (PyPSA capacity expansion dashboard)    *)
(*                                                                         *)
(* Coordinates are fixed-point numbers in units of 10^-6 degree, so the    *)
(* buffer distance 0.005 of the source is 5000 units.  A float that may be *)
(* NaN is a record [nan |-> BOOLEAN, val |-> Int].  A DataFrame is a       *)
(* sequence of rows; every row carries its index label idx.  A CSV field   *)
(* is a sequence of one-character strings, <<>> being the empty field.     *)
(***************************************************************************)
EXTENDS Integers, Sequences, FiniteSets, TLC

VARIABLES
    csv_file,                 \* rows of data/Ladesaeulenregister_Berlin_01122024.csv
    osm_data,                 \* what ox.graph_from_place / graph_to_gdfs deliver
    cache_load_data,          \* st.cache_data entry of load_data
    cache_load_osm_data,      \* st.cache_data entry of load_osm_data
    selected_bezirk,          \* st.selectbox
    filter_by_power,          \* st.checkbox
    options,                  \* st.multiselect
    status,                   \* "init", "ok", or the exception that aborted the run
    gdf_ladesaeulen,          \* script variable after the filters
    nodes,                    \* script variable after the district filter
    edges,                    \* script variable after the district filter
    buffer,                   \* nodes.buffer(0.005): one polygon per node
    nearby_ladesaeulen,       \* the candidate set
    map_berlin,               \* markers added to the folium map
    summary,                  \* the numbers written under "Analyseergebnisse"
    pc,                       \* position of the Split_Map script
    co2_limit,                \* sidebar slider * 1e6
    transmission_cost,        \* sidebar number_input
    button,                   \* st.sidebar.button("Optimize System")
    generators,               \* n.generators.p_nom_opt, by generator name
    initial_generator_capacities,
    comparison_df             \* the generator table written by st.write

ladeVars == <<csv_file, osm_data, cache_load_data, cache_load_osm_data,
              selected_bezirk, filter_by_power, options, status,
              gdf_ladesaeulen, nodes, edges, buffer, nearby_ladesaeulen,
              map_berlin, summary>>

optVars == <<pc, co2_limit, transmission_cost, button, generators,
             initial_generator_capacities, comparison_df>>

vars == <<ladeVars, optVars>>

(***************************************************************************)
(* Bounds of the model and constants of the program.                       *)
(***************************************************************************)
\* rows in the register file
MaxRows == 2

\* largest capacity the solver may return
MaxCap == 1

\* nodes.buffer(0.005), in units of 10^-6 degree
BufferDistance == 5000

\* ... > 50
PowerThreshold == 50

\* segments per quarter circle of nodes.buffer(0.005): GeoSeries.buffer is
\* called without a resolution and uses its default
Resolution == 16

(***************************************************************************)
(* Floats and the parsing of CSV fields.                                   *)
(***************************************************************************)
NaN == [nan |-> TRUE, val |-> 0]

Num(v) == [nan |-> FALSE, val |-> v]

Digits == {"0", "1", "2", "3", "4", "5", "6", "7", "8", "9"}

DigitVal(c) ==
    CASE c = "0" -> 0 [] c = "1" -> 1 [] c = "2" -> 2 [] c = "3" -> 3
      [] c = "4" -> 4 [] c = "5" -> 5 [] c = "6" -> 6 [] c = "7" -> 7
      [] c = "8" -> 8 [] c = "9" -> 9

\* Series.str.replace(a, b) on one string.
str_replace(s, a, b) == [i \in DOMAIN s |-> IF s[i] = a THEN b ELSE s[i]]

\* The position of the first "." of s, or 0.
DotPos(s) ==
    IF \E i \in DOMAIN s : s[i] = "."
    THEN CHOOSE i \in DOMAIN s : s[i] = "." /\ \A j \in 1..(i - 1) : s[j] # "."
    ELSE 0

\* float(s) succeeds: digits with at most one ".", at least one digit.
IsFloatLiteral(s) ==
    /\ \A i \in DOMAIN s : s[i] \in Digits \cup {"."}
    /\ Cardinality({i \in DOMAIN s : s[i] = "."}) <= 1
    /\ \E i \in DOMAIN s : s[i] \in Digits

RECURSIVE DigitsValue(_)
DigitsValue(s) ==
    IF s = <<>> THEN 0
    ELSE 10 * DigitsValue(SubSeq(s, 1, Len(s) - 1)) + DigitVal(s[Len(s)])

RECURSIVE PadRight(_, _)
PadRight(s, n) == IF Len(s) >= n THEN SubSeq(s, 1, n) ELSE PadRight(Append(s, "0"), n)

\* float(s) in units of 10^-6.
ToFloat(s) ==
    LET d == DotPos(s)
        ip == IF d = 0 THEN s ELSE SubSeq(s, 1, d - 1)
        fp == IF d = 0 THEN <<>> ELSE SubSeq(s, d + 1, Len(s))
    IN  DigitsValue(ip) * 10^6 + DigitsValue(PadRight(fp, 6))

\* pd.read_csv leaves a column as strings (dtype object) when it has no row
\* or when some non-empty field is not a number in "." notation; otherwise
\* the column is numeric and has no .str accessor.
IsObjectColumn(col) ==
    \/ Len(col) = 0
    \/ \E i \in DOMAIN col : col[i] # <<>> /\ ~IsFloatLiteral(col[i])

\* .str.replace(',', '.').astype(float) raises ValueError on a string that
\* is no float literal; the empty field (NaN) stays NaN.
AstypeFails(col) ==
    \E i \in DOMAIN col : col[i] # <<>> /\ ~IsFloatLiteral(str_replace(col[i], ",", "."))

astype_float(f) == IF f = <<>> THEN NaN ELSE Num(ToFloat(str_replace(f, ",", ".")))

RECURSIVE SelectRows(_, _)
\* df[mask]: the rows whose mask entry is TRUE, in order.
SelectRows(df, mask) ==
    IF df = <<>> THEN <<>>
    ELSE LET rest == SelectRows(Tail(df), Tail(mask))
         IN  IF Head(mask) THEN <<Head(df)>> \o rest ELSE rest

dropna(df) == SelectRows(df, [i \in DOMAIN df |-> ~df[i].Breitengrad.nan /\ ~df[i].Laengengrad.nan])

load_data(csv) ==
    LET lat == [i \in DOMAIN csv |-> csv[i].Breitengrad]
        lon == [i \in DOMAIN csv |-> csv[i].Laengengrad]
    IN  IF ~IsObjectColumn(lat) THEN [status |-> "AttributeError", df |-> <<>>]
        ELSE IF AstypeFails(lat) THEN [status |-> "ValueError", df |-> <<>>]
        ELSE IF ~IsObjectColumn(lon) THEN [status |-> "AttributeError", df |-> <<>>]
        ELSE IF AstypeFails(lon) THEN [status |-> "ValueError", df |-> <<>>]
        ELSE [status |-> "ok",
              df |-> dropna([i \in DOMAIN csv |->
                         [idx |-> i,
                          Breitengrad |-> astype_float(csv[i].Breitengrad),
                          Laengengrad |-> astype_float(csv[i].Laengengrad),
                          Nennleistung |-> csv[i].Nennleistung]])]

(***************************************************************************)
(* Geometry.  A point is [x |-> longitude, y |-> latitude]; a polygon is   *)
(* the counter-clockwise sequence of the vertices of a convex ring; a line *)
(* is the pair of its end points; a region is a set of polygons, standing  *)
(* for their union.                                                        *)
(***************************************************************************)
Point(lon, lat) == [x |-> lon, y |-> lat]

\* > 0: p is left of the directed edge a -> b; = 0: on its line; < 0: right.
Cross(a, b, p) == (b.x - a.x) * (p.y - a.y) - (b.y - a.y) * (p.x - a.x)

Side(poly, i, p) == Cross(poly[i], poly[(i % Len(poly)) + 1], p)

PointInExterior(p, poly) == \E i \in DOMAIN poly : Side(poly, i, p) < 0

PointInInterior(p, poly) == \A i \in DOMAIN poly : Side(poly, i, p) > 0

\* Mutant of point_within: the boundary counts as inside (covered_by).
point_within_or_on(p, poly) == ~PointInExterior(p, poly)

\* shapely: a.within(b) for a point a: the point lies in the interior of b.
point_within(p, poly) == PointInInterior(p, poly)

\* shapely: a.within(b) for a line a: no point of a in the exterior of b and
\* some point of a's interior in the interior of b.
line_within(l, poly) ==
    /\ ~PointInExterior(l[1], poly)
    /\ ~PointInExterior(l[2], poly)
    /\ ~\E i \in DOMAIN poly : Side(poly, i, l[1]) = 0 /\ Side(poly, i, l[2]) = 0

\* Mutant of point_intersects: only the interior counts.
point_intersects_interior(p, region) == \E poly \in region : PointInInterior(p, poly)

\* shapely: a.intersects(b) for a point a: the point is in b's interior or
\* on b's boundary.
point_intersects(p, region) == \E poly \in region : ~PointInExterior(p, poly)

\* floor(BufferDistance * cos(k * pi / (2 * Resolution))), k = 0 .. Resolution
CosTable == <<5000, 4975, 4903, 4784, 4619, 4409, 4157, 3865, 3535,
              3171, 2777, 2356, 1913, 1451, 975, 490, 0>>

\* The k-th vertex (k = 0 .. 4 * Resolution - 1) of the ring GEOS builds
\* around the origin: the point of the circle at angle k * pi / (2 * Resolution).
RingVertex(k) ==
    LET q == k \div Resolution
        j == k % Resolution
        c == CosTable[j + 1]
        s == CosTable[Resolution - j + 1]
    IN  CASE q = 0 -> Point(c, s)
          [] q = 1 -> Point(-s, c)
          [] q = 2 -> Point(-c, -s)
          [] q = 3 -> Point(s, -c)

\* Mutant of point_buffer: one segment per quarter circle (a diamond).
point_buffer_diamond(c) ==
    <<Point(c.x + BufferDistance, c.y), Point(c.x, c.y + BufferDistance),
      Point(c.x - BufferDistance, c.y), Point(c.x, c.y - BufferDistance)>>

\* Point.buffer(0.005): a polygon of 4 * Resolution vertices on the circle.
point_buffer(c) ==
    [k \in 1..(4 * Resolution) |->
        Point(c.x + RingVertex(k - 1).x, c.y + RingVertex(k - 1).y)]

\* GeoSeries.buffer: one polygon per row.
series_buffer(gdf) == [i \in DOMAIN gdf |-> point_buffer(gdf[i].geometry)]

\* GeoSeries.unary_union: the union of the polygons (empty for no rows).
unary_union(polys) == {polys[i] : i \in DOMAIN polys}

(***************************************************************************)
(* The script of pages/1_Ladeinfrastruktur.py below the loaders.           *)
(***************************************************************************)
Rect(x0, y0, x1, y1) == <<Point(x0, y0), Point(x1, y0), Point(x1, y1), Point(x0, y1)>>

\* load_bezirke(): named district polygons.
gdf_bezirke ==
    <<[name |-> "Mitte", geometry |-> Rect(5000, 5000, 15000, 15000)],
      [name |-> "Pankow", geometry |-> Rect(15000, 5000, 35000, 35000)]>>

BezirkNames == {gdf_bezirke[i].name : i \in DOMAIN gdf_bezirke}

OptionNames == {"Bestehende Ladestationen",
                "Neue berechnete Ladestationen (Verkehrsknotenpunkte)"}

\* gdf_bezirke.loc[gdf_bezirke['name'] == selected_bezirk, 'geometry'].values[0]
bezirk_polygon(sel) ==
    LET i == CHOOSE i \in DOMAIN gdf_bezirke :
                 /\ gdf_bezirke[i].name = sel
                 /\ \A j \in 1..(i - 1) : gdf_bezirke[j].name # sel
    IN  gdf_bezirke[i].geometry

\* valid_df['geometry'] = Point(Laengengrad, Breitengrad)
with_geometry(df) ==
    [i \in DOMAIN df |->
        [idx |-> df[i].idx,
         Breitengrad |-> df[i].Breitengrad,
         Laengengrad |-> df[i].Laengengrad,
         Nennleistung |-> df[i].Nennleistung,
         geometry |-> Point(df[i].Laengengrad.val, df[i].Breitengrad.val)]]

\* gdf[gdf.within(bezirk_polygon)] for point geometries
filter_points_within(gdf, poly) ==
    SelectRows(gdf, [i \in DOMAIN gdf |-> point_within(gdf[i].geometry, poly)])

\* edges[edges.within(bezirk_polygon)]
filter_lines_within(gdf, poly) ==
    SelectRows(gdf, [i \in DOMAIN gdf |-> line_within(gdf[i].geometry, poly)])

\* Mutant of float_gt: NaN compares as greater.
float_gt_nan(a, t) == a.nan \/ a.val > t

\* a > t on floats: False when a is NaN
float_gt(a, t) == ~a.nan /\ a.val > t

\* gdf[gdf['Nennleistung Ladeeinrichtung [kW]'] > t]
filter_min_power(gdf, t) ==
    SelectRows(gdf, [i \in DOMAIN gdf |-> float_gt(gdf[i].Nennleistung, t)])

\* gdf_ladesaeulen[gdf_ladesaeulen.intersects(buffer.unary_union)]
select_nearby(gdf, buf) ==
    SelectRows(gdf, [i \in DOMAIN gdf |-> point_intersects(gdf[i].geometry, unary_union(buf))])

Locations(gdf) == [i \in DOMAIN gdf |-> <<gdf[i].Breitengrad.val, gdf[i].Laengengrad.val>>]

\* the markers added to map_berlin
add_markers(gdf, nearby, opts) ==
    [blue |-> IF "Bestehende Ladestationen" \in opts THEN Locations(gdf) ELSE <<>>,
     red |-> IF "Neue berechnete Ladestationen (Verkehrsknotenpunkte)" \in opts
             THEN Locations(nearby) ELSE <<>>]

\* Mutant of analyseergebnisse: the two counts are exchanged.
analyseergebnisse_swapped(sel, gdf, nearby) ==
    [bezirk |-> IF sel # "Alle" THEN sel ELSE "Alle Bezirke",
     stations |-> Len(nearby),
     candidates |-> Len(gdf)]

\* the f-string under "Analyseergebnisse"
analyseergebnisse(sel, gdf, nearby) ==
    [bezirk |-> IF sel # "Alle" THEN sel ELSE "Alle Bezirke",
     stations |-> Len(gdf),
     candidates |-> Len(nearby)]

\* Mutant of cache_entry: the cache shares the frame the script works on.
cache_entry_shared(returned, working) == working

\* What st.cache_data keeps of a call: a serialized copy of the returned
\* value; what the script does afterwards to the frame it got does not
\* reach the cache.
cache_entry(returned, working) == returned

NoCache == [hit |-> FALSE, value |-> <<>>]

\* One run of the script with the given widget values.
Script(sel, fbp, opts) ==
    LET ld == IF cache_load_data.hit
              THEN [status |-> "ok", df |-> cache_load_data.value]
              ELSE load_data(csv_file)
        osm == IF cache_load_osm_data.hit THEN cache_load_osm_data.value ELSE osm_data
        g0 == with_geometry(ld.df)
        g1 == IF sel # "Alle" THEN filter_points_within(g0, bezirk_polygon(sel)) ELSE g0
        n1 == IF sel # "Alle" THEN filter_points_within(osm.nodes, bezirk_polygon(sel))
              ELSE osm.nodes
        e1 == IF sel # "Alle" THEN filter_lines_within(osm.edges, bezirk_polygon(sel))
              ELSE osm.edges
        g2 == IF fbp THEN filter_min_power(g1, PowerThreshold) ELSE g1
        buf == series_buffer(n1)
        near == select_nearby(g2, buf)
    IN  IF ld.status # "ok"
        THEN /\ status' = ld.status
             /\ UNCHANGED <<cache_load_data, cache_load_osm_data>>
             /\ gdf_ladesaeulen' = <<>>
             /\ nodes' = <<>>
             /\ edges' = <<>>
             /\ buffer' = <<>>
             /\ nearby_ladesaeulen' = <<>>
             /\ map_berlin' = [blue |-> <<>>, red |-> <<>>]
             /\ summary' = [bezirk |-> "", stations |-> 0, candidates |-> 0]
        ELSE /\ status' = "ok"
             /\ cache_load_data' = [hit |-> TRUE, value |-> cache_entry(ld.df, g2)]
             /\ cache_load_osm_data' = [hit |-> TRUE, value |-> osm]
             /\ gdf_ladesaeulen' = g2
             /\ nodes' = n1
             /\ edges' = e1
             /\ buffer' = buf
             /\ nearby_ladesaeulen' = near
             /\ map_berlin' = add_markers(g2, near, opts)
             /\ summary' = analyseergebnisse(sel, g2, near)

(***************************************************************************)
(* The inputs: the rows a register file may hold and the street networks   *)
(* OpenStreetMap may deliver.  Positions are chosen around the node        *)
(* (0.010000, 0.010000) and the border x = 0.015000 of the two districts.  *)
(***************************************************************************)
RowAt_n1 ==
    [Breitengrad |-> <<"0", ",", "0", "1", "0", "0", "0", "0">>,
     Laengengrad |-> <<"0", ",", "0", "1", "0", "0", "0", "0">>,
     Nennleistung |-> Num(22)]

RowOnVertex ==
    [Breitengrad |-> <<"0", ",", "0", "1", "0", "0", "0", "0">>,
     Laengengrad |-> <<"0", ",", "0", "1", "5", "0", "0", "0">>,
     Nennleistung |-> Num(50)]

RowBetweenVertices ==
    [Breitengrad |-> <<"0", ",", "0", "1", "0", "2", "4", "5">>,
     Laengengrad |-> <<"0", ",", "0", "1", "4", "9", "9", "1">>,
     Nennleistung |-> Num(60)]

RowFar ==
    [Breitengrad |-> <<"0", ",", "0", "2", "5", "0", "0", "0">>,
     Laengengrad |-> <<"0", ",", "0", "2", "5", "0", "0", "0">>,
     Nennleistung |-> NaN]

RowBeyond ==
    [Breitengrad |-> <<"0", ",", "0", "1", "0", "0", "0", "0">>,
     Laengengrad |-> <<"0", ",", "0", "1", "5", "0", "0", "1">>,
     Nennleistung |-> Num(11)]

RowUnparseable ==
    [Breitengrad |-> <<"x">>,
     Laengengrad |-> <<"0", ",", "0", "1", "0", "0", "0", "0">>,
     Nennleistung |-> Num(22)]

RowMissing ==
    [Breitengrad |-> <<>>,
     Laengengrad |-> <<"0", ",", "0", "1", "0", "0", "0", "0">>,
     Nennleistung |-> Num(150)]

RowCatalogue == {RowAt_n1, RowOnVertex, RowBetweenVertices, RowFar, RowBeyond,
                 RowUnparseable, RowMissing}

RECURSIVE SeqsUpTo(_, _)
SeqsUpTo(S, n) ==
    IF n = 0 THEN {<<>>}
    ELSE LET shorter == SeqsUpTo(S, n - 1)
         IN  shorter \cup {Append(s, x) : s \in shorter, x \in S}

CsvFiles == SeqsUpTo(RowCatalogue, MaxRows)

Node(id, lon, lat) == [idx |-> id, geometry |-> Point(lon, lat)]

Edge(u, v) == [idx |-> <<u.idx, v.idx>>, geometry |-> <<u.geometry, v.geometry>>]

N1 == Node(1, 10000, 10000)

N2 == Node(2, 20000, 10000)

N4 == Node(4, 15000, 12000)

N5 == Node(5, 15000, 14000)

N6 == Node(6, 8000, 8000)

OsmData ==
    {[nodes |-> <<>>, edges |-> <<>>],
     [nodes |-> <<N1, N2>>, edges |-> <<Edge(N1, N2)>>],
     [nodes |-> <<N6, N1, N4, N5>>,
      edges |-> <<Edge(N6, N1), Edge(N1, N4), Edge(N4, N5)>>]}

(***************************************************************************)
(* pages/2_Split_Map.py                                                    *)
(***************************************************************************)
GeneratorNames == {"onwind", "offwind", "solar", "OCGT"}

SliderValues == {10 * k : k \in 0..20}

CostValues == {0, 500, 1000}

\* n.generators.p_nom_opt.copy(): the column as it is at the time of the call
p_nom_opt_copy(gens) == gens

\* n.add("Generator", ...): a new row, p_nom_opt at its default 0.0
add_generator(gens, name) ==
    [g \in DOMAIN gens \cup {name} |-> IF g = name THEN 0 ELSE gens[g]]

\* pd.DataFrame({"Before Optimization": a, "After Optimization": b}): the
\* rows are the union of the two indexes, NaN where a column has no entry.
DataFrame2(before, after) ==
    [before |-> [g \in DOMAIN before \cup DOMAIN after |->
                    IF g \in DOMAIN before THEN Num(before[g]) ELSE NaN],
     after |-> [g \in DOMAIN before \cup DOMAIN after |->
                    IF g \in DOMAIN after THEN Num(after[g]) ELSE NaN]]

NoTable == [before |-> <<>>, after |-> <<>>]

\* Lines 27-123: widgets, a fresh network, the snapshot, the generators.
BuildNetwork(slider, cost, pressed) ==
    /\ pc \in {"idle", "done"}
    /\ LET n0 == <<>>
           snapshot == p_nom_opt_copy(n0)
           n1 == add_generator(add_generator(add_generator(n0, "onwind"), "offwind"), "solar")
           n2 == add_generator(n1, "OCGT")
       IN  /\ initial_generator_capacities' = snapshot
           /\ generators' = n2
    /\ co2_limit' = slider * 10^6
    /\ transmission_cost' = cost
    /\ button' = pressed
    /\ comparison_df' = NoTable
    /\ pc' = "built"
    /\ UNCHANGED ladeVars

\* Lines 127-161: the button was pressed; the solver sets p_nom_opt.
Optimize ==
    /\ pc = "built"
    /\ button
    /\ \E solved \in [GeneratorNames -> 0..MaxCap] :
          /\ generators' = solved
          /\ comparison_df' = DataFrame2(initial_generator_capacities, solved)
    /\ pc' = "done"
    /\ UNCHANGED <<co2_limit, transmission_cost, button, initial_generator_capacities>>
    /\ UNCHANGED ladeVars

\* The button was not pressed: the script ends after the link is added.
SkipOptimize ==
    /\ pc = "built"
    /\ ~button
    /\ pc' = "done"
    /\ UNCHANGED <<co2_limit, transmission_cost, button, generators,
                   initial_generator_capacities, comparison_df>>
    /\ UNCHANGED ladeVars

(***************************************************************************)
(* Specifications.                                                         *)
(***************************************************************************)
InitLade ==
    /\ cache_load_data = NoCache
    /\ cache_load_osm_data = [hit |-> FALSE, value |-> [nodes |-> <<>>, edges |-> <<>>]]
    /\ selected_bezirk = "Alle"
    /\ filter_by_power = FALSE
    /\ options = {"Bestehende Ladestationen"}
    /\ status = "init"
    /\ gdf_ladesaeulen = <<>>
    /\ nodes = <<>>
    /\ edges = <<>>
    /\ buffer = <<>>
    /\ nearby_ladesaeulen = <<>>
    /\ map_berlin = [blue |-> <<>>, red |-> <<>>]
    /\ summary = [bezirk |-> "", stations |-> 0, candidates |-> 0]

InitOpt ==
    /\ pc = "idle"
    /\ co2_limit = 0
    /\ transmission_cost = 0
    /\ button = FALSE
    /\ generators = <<>>
    /\ initial_generator_capacities = <<>>
    /\ comparison_df = NoTable

Init ==
    /\ csv_file \in CsvFiles
    /\ osm_data \in OsmData
    /\ InitLade
    /\ InitOpt

\* The page is opened: the script runs with the widgets at their defaults.
FirstRun ==
    /\ status = "init"
    /\ Script(selected_bezirk, filter_by_power, options)
    /\ UNCHANGED <<csv_file, osm_data, selected_bezirk, filter_by_power, options>>
    /\ UNCHANGED optVars

\* The user picks an entry of the selectbox; the script runs again.
SelectBezirk(sel) ==
    /\ status = "ok"
    /\ sel # selected_bezirk
    /\ selected_bezirk' = sel
    /\ Script(sel, filter_by_power, options)
    /\ UNCHANGED <<csv_file, osm_data, filter_by_power, options>>
    /\ UNCHANGED optVars

\* The user clicks the checkbox; the script runs again.
TogglePower ==
    /\ status = "ok"
    /\ filter_by_power' = ~filter_by_power
    /\ Script(selected_bezirk, ~filter_by_power, options)
    /\ UNCHANGED <<csv_file, osm_data, selected_bezirk, options>>
    /\ UNCHANGED optVars

\* The user changes the multiselect; the script runs again.
SetOptions(opts) ==
    /\ status = "ok"
    /\ opts # options
    /\ options' = opts
    /\ Script(selected_bezirk, filter_by_power, opts)
    /\ UNCHANGED <<csv_file, osm_data, selected_bezirk, filter_by_power>>
    /\ UNCHANGED optVars

\* A rerun with the widgets as they are (the map was moved, "R" was pressed).
Rerun ==
    /\ status # "init"
    /\ Script(selected_bezirk, filter_by_power, options)
    /\ UNCHANGED <<csv_file, osm_data, selected_bezirk, filter_by_power, options>>
    /\ UNCHANGED optVars

Next ==
    \/ FirstRun
    \/ \E sel \in {"Alle"} \cup BezirkNames : SelectBezirk(sel)
    \/ TogglePower
    \/ \E opts \in SUBSET OptionNames : SetOptions(opts)
    \/ Rerun

Spec == Init /\ [][Next]_vars

InitSplitMap ==
    /\ csv_file = <<>>
    /\ osm_data = [nodes |-> <<>>, edges |-> <<>>]
    /\ InitLade
    /\ InitOpt

NextSplitMap ==
    \/ \E slider \in SliderValues, cost \in CostValues, pressed \in BOOLEAN :
          BuildNetwork(slider, cost, pressed)
    \/ Optimize
    \/ SkipOptimize

SpecSplitMap == InitSplitMap /\ [][NextSplitMap]_vars

(***************************************************************************)
(* Vocabulary of the properties.  These state what the claims say in terms *)
(* of the inputs and of elementary geometry; they are not used by the      *)
(* actions.                                                                *)
(***************************************************************************)
Rows(df) == {df[i] : i \in DOMAIN df}

\* sub holds rows of full, each once, in the order they have in full
SameOrderAs(sub, full) ==
    /\ \A j \in DOMAIN sub : \E i \in DOMAIN full : full[i] = sub[j]
    /\ \A j, k \in DOMAIN sub :
          j < k => \E a, b \in DOMAIN full : a < b /\ full[a] = sub[j] /\ full[b] = sub[k]

StrictlyInside(p, poly) ==
    \A i \in 1..Len(poly) : Cross(poly[i], poly[(i % Len(poly)) + 1], p) > 0

InsideOrOn(p, poly) ==
    \A i \in 1..Len(poly) : Cross(poly[i], poly[(i % Len(poly)) + 1], p) >= 0

OnBoundary(p, poly) == InsideOrOn(p, poly) /\ ~StrictlyInside(p, poly)

\* the middle of the line l lies strictly inside the convex polygon
MiddleStrictlyInside(l, poly) ==
    \A i \in 1..Len(poly) :
        Cross(poly[i], poly[(i % Len(poly)) + 1], l[1])
          + Cross(poly[i], poly[(i % Len(poly)) + 1], l[2]) > 0

Dist2(p, q) == (p.x - q.x) * (p.x - q.x) + (p.y - q.y) * (p.y - q.y)

\* p belongs to the region the buffer polygons cover
InBuffer(p) == \E k \in DOMAIN buffer : InsideOrOn(p, buffer[k])

InSelectedBezirk(p) ==
    selected_bezirk = "Alle" \/ StrictlyInside(p, bezirk_polygon(selected_bezirk))

\* the loaded stations that lie in the selected district
DistrictStations ==
    {r \in Rows(with_geometry(cache_load_data.value)) : InSelectedBezirk(r.geometry)}

WellFormed(f) == f # <<>> /\ IsFloatLiteral(str_replace(f, ",", "."))

\* points at which the buffer is examined: the stations on the map and
\* fixed offsets around the node N1
Offsets == {<<4990, 0>>, <<0, 4990>>, <<-4990, 0>>, <<0, -4990>>,
            <<3528, 3528>>, <<-3528, 3528>>, <<4983, 245>>, <<245, -4983>>,
            <<4991, 245>>, <<5000, 0>>, <<5001, 0>>, <<3536, 3536>>,
            <<0, 0>>, <<-5000, 1>>}

ProbePoints ==
    {r.geometry : r \in Rows(gdf_ladesaeulen)}
      \cup {Point(N1.geometry.x + o[1], N1.geometry.y + o[2]) : o \in Offsets}

ThresholdProbes == {0, 11, 22, 49, 50, 59, 60, 150}

(***************************************************************************)
(* Claims.                                                                 *)
(***************************************************************************)

\* C1: after every run the candidate set is a subset of the active station
\* collection, and the reported candidate count is at most the reported
\* station count.
C1_CandidatesSubset ==
    status = "ok" =>
        /\ Rows(nearby_ladesaeulen) \subseteq Rows(gdf_ladesaeulen)
        /\ Len(nearby_ladesaeulen) <= Len(gdf_ladesaeulen)
        /\ summary.candidates <= summary.stations

C1_Witness ==
    /\ status = "ok"
    /\ selected_bezirk # "Alle"
    /\ Len(nearby_ladesaeulen) >= 1
    /\ Len(nearby_ladesaeulen) < Len(gdf_ladesaeulen)

\* C2: the candidates are exactly the active stations that lie inside or on
\* the boundary of the buffer region, in the order of the input; with an
\* empty region there is no candidate.
C2_NearbyExact ==
    status = "ok" =>
        /\ \A r \in Rows(gdf_ladesaeulen) :
              r \in Rows(nearby_ladesaeulen) <=> InBuffer(r.geometry)
        /\ SameOrderAs(nearby_ladesaeulen, gdf_ladesaeulen)
        /\ (buffer = <<>> => nearby_ladesaeulen = <<>>)

C2_Witness ==
    /\ status = "ok"
    /\ Len(nearby_ladesaeulen) = 2
    /\ \E r \in Rows(nearby_ladesaeulen) :
          /\ \E k \in DOMAIN buffer : OnBoundary(r.geometry, buffer[k])
          /\ \A k \in DOMAIN buffer : ~StrictlyInside(r.geometry, buffer[k])

\* C3 as stated: the buffer holds every point within the distance r of some
\* node and no point farther than r from all nodes; without nodes it is
\* empty and there is no candidate.
C3_DiskOriginal ==
    status = "ok" =>
        /\ \A p \in ProbePoints :
              /\ (\E n \in Rows(nodes) :
                      Dist2(p, n.geometry) <= BufferDistance * BufferDistance)
                    => InBuffer(p)
              /\ (\A n \in Rows(nodes) :
                      Dist2(p, n.geometry) > BufferDistance * BufferDistance)
                    => ~InBuffer(p)
        /\ (nodes = <<>> => buffer = <<>> /\ nearby_ladesaeulen = <<>>)

InnerDistance == (BufferDistance * 998) \div 1000

\* C3 (amended): the buffer holds every point within 0.998 r of some node
\* and no point farther than r from all nodes; without nodes it is empty
\* and there is no candidate.
C3_PolygonBuffer ==
    status = "ok" =>
        /\ \A p \in ProbePoints :
              /\ (\E n \in Rows(nodes) :
                      Dist2(p, n.geometry) <= InnerDistance * InnerDistance)
                    => InBuffer(p)
              /\ (\A n \in Rows(nodes) :
                      Dist2(p, n.geometry) > BufferDistance * BufferDistance)
                    => ~InBuffer(p)
        /\ (nodes = <<>> => buffer = <<>> /\ nearby_ladesaeulen = <<>>)

C3_Witness ==
    /\ status = "ok"
    /\ nodes # <<>>
    /\ \E r \in Rows(nearby_ladesaeulen) : \E n \in Rows(nodes) :
          /\ r.geometry # n.geometry
          /\ Dist2(r.geometry, n.geometry) <= InnerDistance * InnerDistance
    /\ \E r \in Rows(gdf_ladesaeulen) :
          /\ r \notin Rows(nearby_ladesaeulen)
          /\ \A n \in Rows(nodes) :
                Dist2(r.geometry, n.geometry) > BufferDistance * BufferDistance

C5_AtLeast50 ==
    (status = "ok" /\ filter_by_power) =>
        Rows(gdf_ladesaeulen) =
            {r \in DistrictStations :
                ~r.Nennleistung.nan /\ r.Nennleistung.val >= PowerThreshold}

\* C6 as stated: with "Alle" the three collections are unchanged; with a
\* district each holds exactly the items lying strictly within the polygon,
\* none of them touching its boundary.
C6_StrictOriginal ==
    (status = "ok" /\ ~filter_by_power) =>
        /\ selected_bezirk = "Alle" =>
              /\ gdf_ladesaeulen = with_geometry(cache_load_data.value)
              /\ nodes = osm_data.nodes
              /\ edges = osm_data.edges
        /\ selected_bezirk # "Alle" =>
              LET poly == bezirk_polygon(selected_bezirk)
              IN  /\ Rows(gdf_ladesaeulen) =
                        {r \in Rows(with_geometry(cache_load_data.value)) :
                            StrictlyInside(r.geometry, poly)}
                  /\ Rows(nodes) =
                        {n \in Rows(osm_data.nodes) : StrictlyInside(n.geometry, poly)}
                  /\ Rows(edges) =
                        {e \in Rows(osm_data.edges) :
                            /\ StrictlyInside(e.geometry[1], poly)
                            /\ StrictlyInside(e.geometry[2], poly)}

\* C6 (amended): with "Alle" the three collections are unchanged and keep
\* their order; with a district the stations and nodes are exactly those
\* strictly inside the polygon, and the edges are exactly those with no
\* point outside the polygon and some point strictly inside it (an edge
\* that only touches the boundary with an end point is kept).
C6_DistrictFilter ==
    (status = "ok" /\ ~filter_by_power) =>
        /\ selected_bezirk = "Alle" =>
              /\ gdf_ladesaeulen = with_geometry(cache_load_data.value)
              /\ nodes = osm_data.nodes
              /\ edges = osm_data.edges
        /\ selected_bezirk # "Alle" =>
              LET poly == bezirk_polygon(selected_bezirk)
              IN  /\ Rows(gdf_ladesaeulen) =
                        {r \in Rows(with_geometry(cache_load_data.value)) :
                            StrictlyInside(r.geometry, poly)}
                  /\ SameOrderAs(gdf_ladesaeulen, with_geometry(cache_load_data.value))
                  /\ Rows(nodes) =
                        {n \in Rows(osm_data.nodes) : StrictlyInside(n.geometry, poly)}
                  /\ SameOrderAs(nodes, osm_data.nodes)
                  /\ Rows(edges) =
                        {e \in Rows(osm_data.edges) :
                            /\ InsideOrOn(e.geometry[1], poly)
                            /\ InsideOrOn(e.geometry[2], poly)
                            /\ MiddleStrictlyInside(e.geometry, poly)}
                  /\ SameOrderAs(edges, osm_data.edges)

C6_Witness ==
    /\ status = "ok"
    /\ ~filter_by_power
    /\ selected_bezirk # "Alle"
    /\ \E e \in Rows(edges) : OnBoundary(e.geometry[2], bezirk_polygon(selected_bezirk))
    /\ \E n \in Rows(osm_data.nodes) :
          OnBoundary(n.geometry, bezirk_polygon(selected_bezirk)) /\ n \notin Rows(nodes)
    /\ \E r \in Rows(with_geometry(cache_load_data.value)) :
          OnBoundary(r.geometry, bezirk_polygon(selected_bezirk))
            /\ r \notin Rows(gdf_ladesaeulen)
    /\ Len(gdf_ladesaeulen) >= 1

\* C7: the load never fails; it returns exactly the rows of the file whose
\* latitude and longitude are both present and parseable.
C7_LoadDropsBadRows ==
    status # "init" =>
        /\ status = "ok"
        /\ {r.idx : r \in Rows(cache_load_data.value)} =
              {i \in DOMAIN csv_file :
                  WellFormed(csv_file[i].Breitengrad) /\ WellFormed(csv_file[i].Laengengrad)}

\* C8: the reported station count is the number of station markers on the
\* map, and the reported candidate count the number of candidate markers.
C8_CountsMatchMarkers ==
    status = "ok" =>
        /\ summary.stations = Len(map_berlin.blue)
        /\ summary.candidates = Len(map_berlin.red)

\* C9: when the solver runs, the "Before Optimization" column holds, for
\* each of the four generators, its capacity in the network just before.
C9_BeforeColumn ==
    [][(pc = "built" /\ pc' = "done" /\ button) =>
          \A g \in GeneratorNames :
              /\ g \in DOMAIN comparison_df'.before
              /\ comparison_df'.before[g] = Num(generators[g])]_vars

\* C10: what a run shows is determined by the files as loaded and the
\* current widget values alone: the memoized data stay what the loaders
\* returned, and the stations, nodes and candidates are the ones these
\* data and settings give.
C10_OnlyCurrentSettings ==
    status = "ok" =>
        LET loaded == with_geometry(load_data(csv_file).df)
            expStations ==
                {r \in Rows(loaded) :
                    /\ InSelectedBezirk(r.geometry)
                    /\ filter_by_power =>
                          (~r.Nennleistung.nan /\ r.Nennleistung.val > PowerThreshold)}
            expNodes == {n \in Rows(osm_data.nodes) : InSelectedBezirk(n.geometry)}
        IN  /\ cache_load_data = [hit |-> TRUE, value |-> load_data(csv_file).df]
            /\ cache_load_osm_data = [hit |-> TRUE, value |-> osm_data]
            /\ Rows(gdf_ladesaeulen) = expStations
            /\ SameOrderAs(gdf_ladesaeulen, loaded)
            /\ Rows(nodes) = expNodes
            /\ SameOrderAs(nodes, osm_data.nodes)
            /\ Rows(nearby_ladesaeulen) =
                  {r \in expStations :
                      \E n \in expNodes : InsideOrOn(r.geometry, point_buffer(n.geometry))}
            /\ SameOrderAs(nearby_ladesaeulen, loaded)

C10_Witness ==
    /\ status = "ok"
    /\ selected_bezirk = "Mitte"
    /\ filter_by_power
    /\ options = {}
    /\ Len(cache_load_data.value) = 2
    /\ Len(gdf_ladesaeulen) = 1
    /\ Len(nearby_ladesaeulen) = 0
    /\ Len(nodes) = 2

====
